---- MODULE Spec2Model ----
(***************************************************************************)
(* A model of the two experiment drivers of neuron-descriptions:           *)
(*   run_captioner_sweep.py  device, results dir, pretrained import,       *)
(*                           cached splits / lm / captioner, sweep loops   *)
(*   run_cnn_cert.py         device, results dir, cached splits / cnn /    *)
(*                           captions / scores, ablation loops             *)
(* Each script is a straight-line program; one action models one block of  *)
(* the script, `pc` is the position of the interpreter.  The file system   *)
(* is the results directory (and the --pretrained directory): a map from   *)
(* file name to contents.  Contents carry an `origin` ("old": written by   *)
(* an earlier run, "pre": a file of the --pretrained directory, "new":     *)
(* written by this run) so that a load can be told from a regeneration.    *)
(* The float arguments (temperatures, ablation fractions) are given in     *)
(* hundredths; the grids numpy.arange makes of them and the products       *)
(* `fraction * len(indices)` are computed in IEEE 754 binary64, as numpy   *)
(* computes them, and a float is written to the log in hundredths.         *)
(***************************************************************************)
EXTENDS Integers, Sequences, FiniteSets, TLC

VARIABLES
    script,            \* which driver runs: "sweep" or "cert"
    pc,                \* position in the script
    args,              \* argparse namespace
    cuda_available,    \* what torch.cuda.is_available() returns
    device,            \* the module-level `device`
    results_exists,    \* results_dir.exists()
    results_files,     \* files of results_dir: name -> contents
    pretrained_files,  \* files of the --pretrained dir: name -> contents
    train,             \* in-memory train split (indices)
    test,              \* in-memory test split (sweep) / val split (cert)
    split_source,      \* "none" | "loaded" | "random"
    lm,                \* in-memory language model (contents record)
    decoder,           \* in-memory captioner / cnn (contents record)
    cert,              \* run_cnn_cert.py: in-memory cnn, captions, scores
    iter,              \* loop indices of the script
    wandb_log,         \* the records passed to wandb.log, in order
    calls,             \* history: library calls made so far
    loaded,            \* history: <<file name, origin>> of every cached load
    imported,          \* history: names copied from the --pretrained dir
    results_before,    \* history: the files of results_dir when the run began
    device_uses        \* history: every value passed as device / map_location

vars == <<script, pc, args, cuda_available, device, results_exists,
          results_files, pretrained_files, train, test, split_source, lm,
          decoder, cert, iter, wandb_log, calls, loaded, imported,
          results_before, device_uses>>

----------------------------------------------------------------------------
(* Bounds of the model.                                                    *)

\* number of examples of the dataset
DatasetSize == 2
\* --hold-out, in percent
HoldOutPct == 50
\* largest --beam-size-min / --beam-size-max / --mi-temperature-* tried
MaxGrid == 3
\* largest --beam-size-step / --mi-temperature-step tried
MaxStep == 2
\* longest --sweeps list tried
MaxSweeps == 2
\* number of units of the dissected cnn
NumUnits == 2
\* largest --n-random-trials tried
MaxTrials == 2

----------------------------------------------------------------------------
(* Values.                                                                 *)

None == "None"

SWEEP_GREEDY == "greedy"
SWEEP_BEAM == "beam"
SWEEP_GREEDY_MI == "greedy-mi"
SWEEP_BEAM_MI == "beam-mi"
SWEEP_RERANK == "rerank"
SWEEPS == <<SWEEP_GREEDY, SWEEP_BEAM, SWEEP_GREEDY_MI, SWEEP_BEAM_MI, SWEEP_RERANK>>

SCORE_BLEU == "bleu"
SCORE_ROUGE == "rouge"
SCORE_BERT_SCORE == "bert-score"
SCORES == <<SCORE_BLEU, SCORE_ROUGE, SCORE_BERT_SCORE>>

Range(s) == {s[i] : i \in 1..Len(s)}

Max(a, b) == IF a >= b THEN a ELSE b

\* Python truthiness of an optional string argument
Truthy(x) == x # None /\ x # ""

Dataset == 1..DatasetSize

\* contents of a file (or of the object loaded from it); `lines` is the number
\* of lines of a text file, or of scores of a scores file
File(origin, tr, te) ==
    [origin |-> origin, train |-> tr, test |-> te, lines |-> 0]
NoFile == File("none", {}, {})
Exists(files, name) == files[name].origin # "none"
NoFiles(names) == [n \in names |-> NoFile]

SPLITS == "splits.pth"
LM == "lm.pth"
CAPTIONER == "captioner.pth"
SweepFiles == {SPLITS, LM, CAPTIONER}

----------------------------------------------------------------------------
(* Library calls the scripts make (lv.utils.training, shutil, numpy).      *)

\* int(hold_out * len(dataset)): size of the held out split
SplitSize(hold_out) == (hold_out * DatasetSize) \div 100

\* training.fixed_split(dataset, indices): <<the rest, the subset at indices>>
fixed_split(dataset, indices) == <<dataset \ indices, indices>>

\* training.random_split(dataset, hold_out): every <<train, held out>> it can draw
random_split(dataset, hold_out) ==
    {fixed_split(dataset, held) : held \in
        {h \in SUBSET dataset : Cardinality(h) = SplitSize(hold_out)}}

\* numpy.arange(start, stop, step) on integers, for step > 0:
\* start, start + step, ... < stop
arange(start, stop, step) ==
    LET n == Max(0, -((start - stop) \div step))
    IN  [i \in 1..n |-> start + (i - 1) * step]

\* shutil.rmtree(results_dir): every file of the directory is gone
rmtree(files) == [n \in DOMAIN files |-> NoFile]

----------------------------------------------------------------------------
(* IEEE 754 binary64, the arithmetic of numpy.arange on float arguments    *)
(* and of `fraction * len(indices)`.  A significand is a natural number    *)
(* kept as a sequence of limbs, least significant first.                   *)

\* bits of a limb
LimbBits == 15
LimbBase == 2^LimbBits
\* bits of the significand of a binary64
Precision == 53

\* the element of a one-element set; in Value({e : v \in {x}}) the value of
\* x is computed once, before e
Value(S) == CHOOSE r \in S : TRUE

Min(a, b) == IF a <= b THEN a ELSE b

\* the limbs of n
RECURSIVE BN(_)
BN(n) == IF n = 0 THEN <<>> ELSE <<n % LimbBase>> \o BN(n \div LimbBase)

\* the number whose limbs are x
RECURSIVE BNToInt(_)
BNToInt(x) == IF x = <<>> THEN 0 ELSE x[1] + LimbBase * BNToInt(Tail(x))

\* x without leading zero limbs
RECURSIVE BNTrim(_)
BNTrim(x) ==
    IF x # <<>> /\ x[Len(x)] = 0 THEN BNTrim(SubSeq(x, 1, Len(x) - 1)) ELSE x

Limb(x, i) == IF i <= Len(x) THEN x[i] ELSE 0

RECURSIVE BNCmpFrom(_, _, _)
BNCmpFrom(x, y, i) ==
    IF i = 0 THEN 0
    ELSE IF x[i] # y[i] THEN (IF x[i] < y[i] THEN -1 ELSE 1)
    ELSE BNCmpFrom(x, y, i - 1)

\* -1, 0, 1 as x <, =, > y
BNCmp(x, y) ==
    Value({IF Len(v[1]) # Len(v[2])
           THEN (IF Len(v[1]) < Len(v[2]) THEN -1 ELSE 1)
           ELSE BNCmpFrom(v[1], v[2], Len(v[1])) : v \in {<<x, y>>}})

RECURSIVE BNAddFrom(_, _, _, _)
BNAddFrom(x, y, i, carry) ==
    IF i > Len(x) /\ i > Len(y)
    THEN (IF carry = 0 THEN <<>> ELSE <<carry>>)
    ELSE Value({<<t % LimbBase>> \o BNAddFrom(x, y, i + 1, t \div LimbBase) :
                   t \in {Limb(x, i) + Limb(y, i) + carry}})

\* x + y
BNAdd(x, y) == Value({BNAddFrom(v[1], v[2], 1, 0) : v \in {<<x, y>>}})

RECURSIVE BNSubFrom(_, _, _, _)
BNSubFrom(x, y, i, borrow) ==
    IF i > Len(x) THEN <<>>
    ELSE Value({<<t % LimbBase>>
                    \o BNSubFrom(x, y, i + 1, IF t < 0 THEN 1 ELSE 0) :
                   t \in {x[i] - Limb(y, i) - borrow}})

\* x - y for x >= y
BNSub(x, y) == Value({BNTrim(BNSubFrom(v[1], v[2], 1, 0)) : v \in {<<x, y>>}})

RECURSIVE BNMulFrom(_, _, _, _)
BNMulFrom(x, k, i, carry) ==
    IF i > Len(x) THEN BN(carry)
    ELSE Value({<<t % LimbBase>> \o BNMulFrom(x, k, i + 1, t \div LimbBase) :
                   t \in {x[i] * k + carry}})

\* x * k for 0 <= k < LimbBase
BNMul(x, k) == Value({BNTrim(BNMulFrom(v[1], v[2], 1, 0)) : v \in {<<x, k>>}})

\* x * 2^n
BNShl(x, n) ==
    Value({IF v[1] = <<>> THEN <<>>
           ELSE [i \in 1..(v[2] \div LimbBits) |-> 0]
                    \o BNMul(v[1], 2^(v[2] % LimbBits)) : v \in {<<x, n>>}})

\* x \div 2^n
BNShr(x, n) ==
    Value({LET p == 2^(v[2] % LimbBits)
               y == SubSeq(v[1], (v[2] \div LimbBits) + 1, Len(v[1]))
           IN  BNTrim([i \in 1..Len(y) |->
                          (y[i] \div p) + (Limb(y, i + 1) % p) * (LimbBase \div p)]) :
              v \in {<<x, n>>}})

\* floor(x * 2^n)
BNScale(x, n) == IF n >= 0 THEN BNShl(x, n) ELSE BNShr(x, -n)

RECURSIVE BitLength(_)
BitLength(k) == IF k = 0 THEN 0 ELSE 1 + BitLength(k \div 2)

\* the number of bits of x
BNBits(x) ==
    IF x = <<>> THEN 0 ELSE LimbBits * (Len(x) - 1) + BitLength(x[Len(x)])

\* a binary64 x >= 0 is x.m * 2^x.e with 2^52 <= x.m < 2^53, or zero
FZero == [m |-> <<>>, e |-> 0]

\* <<n, d, e>> scaled until d <= n < 2 * d, with (n / d) * 2^e kept
Normalize(n, d, e) ==
    Value({Value({IF BNCmp(w[1], w[2]) < 0
                  THEN <<BNShl(w[1], 1), w[2], w[3] - 1>>
                  ELSE w :
                     w \in {<<BNShl(v[1], Max(0, -v[4])),
                              BNShl(v[2], Max(0, v[4])), v[3] + v[4]>>}}) :
              v \in {<<n, d, e, BNBits(n) - BNBits(d)>>}})

\* the next i bits of the quotient q of n by t; t is halved at every bit
RECURSIVE DivideBits(_, _, _, _)
DivideBits(n, t, i, q) ==
    Value({IF v[3] = 0 THEN v
           ELSE IF BNCmp(v[1], v[2]) >= 0
           THEN DivideBits(BNSub(v[1], v[2]), BNShr(v[2], 1), v[3] - 1,
                           BNAdd(BNShl(v[4], 1), <<1>>))
           ELSE DivideBits(v[1], BNShr(v[2], 1), v[3] - 1, BNShl(v[4], 1)) :
              v \in {<<n, t, i, q>>}})

\* <<quotient, remainder>> of n * 2^(i - 1) by t, for t <= n < 2 * t and t a
\* multiple of 2^(i - 1): i bits, a limb of bits at a time
RECURSIVE LongDivide(_, _, _, _)
LongDivide(n, t, i, q) ==
    IF i = 0 THEN <<q, n>>
    ELSE Value({LongDivide(v[1], v[2], i - Min(i, LimbBits), v[4]) :
                   v \in {DivideBits(n, t, Min(i, LimbBits), q)}})

\* the significand q rounded to nearest, ties to even, given the remainder
\* r of the division by d
RoundNearest(q, r, d, e) ==
    LET twice == BNCmp(BNAdd(r, r), d)
        up == twice > 0 \/ (twice = 0 /\ q[1] % 2 = 1)
        m == IF up THEN BNAdd(q, <<1>>) ELSE q
    IN  IF BNCmp(m, BNShl(<<1>>, Precision)) = 0
        THEN [m |-> BNShr(m, 1), e |-> e + 1]
        ELSE [m |-> m, e |-> e]

\* the binary64 nearest to (n / d) * 2^e
RoundRatio(n, d, e) ==
    IF n = <<>> THEN FZero
    ELSE Value({Value({RoundNearest(qr[1], qr[2],
                                    BNShr(s[2], Precision - 1), s[3]) :
                          qr \in {LongDivide(s[1], s[2], Precision, <<>>)}}) :
                   s \in {Normalize(n, BNShl(d, Precision - 1), e)}})

\* float('0.07'): the binary64 nearest to h / 100
FromHundredths(h) == RoundRatio(BN(h), BN(100), 0)

\* the significand of x at the exponent e <= x.e
Aligned(x, e) == BNShl(x.m, x.e - e)

\* x < y
FLess(x, y) ==
    Value({BNCmp(Aligned(v[1], v[3]), Aligned(v[2], v[3])) < 0 :
              v \in {<<x, y, Min(x.e, y.e)>>}})

\* x + y
FAdd(x, y) ==
    Value({RoundRatio(BNAdd(Aligned(v[1], v[3]), Aligned(v[2], v[3])),
                      <<1>>, v[3]) : v \in {<<x, y, Min(x.e, y.e)>>}})

\* x - y for x >= y
FSub(x, y) ==
    Value({RoundRatio(BNSub(Aligned(v[1], v[3]), Aligned(v[2], v[3])),
                      <<1>>, v[3]) : v \in {<<x, y, Min(x.e, y.e)>>}})

\* x / y for y > 0
FDiv(x, y) == Value({RoundRatio(v[1].m, v[2].m, v[1].e - v[2].e) :
                        v \in {<<x, y>>}})

\* x * k for an integer 0 <= k < LimbBase
FMul(x, k) == Value({RoundRatio(BNMul(v.m, k), <<1>>, v.e) : v \in {x}})

\* int(x): x truncated
FTrunc(x) == Value({BNToInt(BNScale(v.m, v.e)) : v \in {x}})

\* math.ceil(x)
FCeil(x) ==
    Value({Value({BNToInt(f) + (IF BNScale(f, -v.e) = v.m THEN 0 ELSE 1) :
                     f \in {BNScale(v.m, v.e)}}) : v \in {x}})

\* x in hundredths, to the nearest
FHundredths(x) ==
    Value({(BNToInt(BNScale(BNMul(v.m, 200), v.e)) + 1) \div 2 : v \in {x}})

\* numpy.arange(start, stop, step) on floats given in hundredths, step > 0:
\* ceil((stop - start) / step) elements; they are start, next = start + step
\* and then start + i * delta, where delta = next - start
float_arange(start, stop, step) ==
    Value({Value({Value({[i \in 1..w[1] |->
                             IF i = 1 THEN v[1]
                             ELSE IF i = 2 THEN next
                             ELSE FAdd(v[1], FMul(w[2], i - 1))] :
                            w \in {<<IF FLess(v[1], v[2])
                                     THEN FCeil(FDiv(FSub(v[2], v[1]), v[3]))
                                     ELSE 0,
                                     FSub(next, v[1])>>}}) :
                     next \in {FAdd(v[1], v[3])}}) :
              v \in {<<FromHundredths(start), FromHundredths(stop),
                       FromHundredths(step)>>}})

\* an element x of a float grid, as the scripts use it: x in hundredths (what
\* the log shows) and int(x * n) for every number n of units
GridPoint(x) ==
    [hundredths |-> FHundredths(x),
     times |-> [n \in 0..NumUnits |-> FTrunc(FMul(x, n))]]

\* the elements of numpy.arange(min, max, step) for <<min, max, step>> = g
GridPoints(g) ==
    LET r == float_arange(g[1], g[2], g[3])
    IN  [i \in 1..Len(r) |-> GridPoint(r[i])]

\* 0.03, 0.04, 0.01: (0.04 - 0.03) / 0.01 is 1.0000000000000002 in binary64,
\* so the grid has two elements and the second is the stop value
StopIncludedGrid == <<3, 4, 1>>

\* 0, 0.01, ..., 0.07: 0.07 / 0.01 is 7.000000000000001 in binary64, so the
\* grid has eight elements
EightGrid == <<0, 7, 1>>

\* the temperature grids of the sweep runs: dense, sparse, empty and rounded
TemperatureGrids ==
    {<<1, MaxGrid, 1>>, <<1, MaxGrid, MaxStep>>, <<MaxGrid, 1, 1>>,
     StopIncludedGrid, EightGrid}

\* 0, 0.5
HalfGrid == <<0, 100, 50>>
\* 0.08, 0.29, 0.49999999999999994
BelowHalfGrid == <<8, 60, 21>>

\* the ablation grids of the cnn runs
FractionGrids == {HalfGrid, BelowHalfGrid}

\* the grids of the runs checked here, computed once
KnownGrids == TemperatureGrids \cup FractionGrids
GridTable == [g \in KnownGrids |-> GridPoints(g)]

\* numpy.arange(min, max, step) for <<min, max, step>> = g
FloatGrid(g) == IF g \in KnownGrids THEN GridTable[g] ELSE GridPoints(g)

----------------------------------------------------------------------------
(* run_captioner_sweep.py: set-up.                                         *)

\* device = args.device or 'cuda' if cuda.is_available() else 'cpu'
\* Python reads it as (args.device or 'cuda') if cuda.is_available() else 'cpu'.
SweepDevice(arg, cuda) ==
    IF cuda THEN (IF Truthy(arg) THEN arg ELSE "cuda") ELSE "cpu"

SweepShouldClearNever(clear, exists) == FALSE

\* if args.clear_results_dir and results_dir.exists():
SweepShouldClear(clear, exists) == clear /\ exists

shutil_copy_keep(src, dst) == IF dst.origin # "none" THEN dst ELSE src

\* shutil.copy(child, results_dir): the copy replaces a file of the same name
shutil_copy(src, dst) == src

\* the directory --pretrained names ("results": it is the results dir itself)
PretrainedDir ==
    IF args.pretrained = "results" THEN results_files ELSE pretrained_files

Children(files) == {n \in DOMAIN files : Exists(files, n)}

Use(dev) == device_uses' = device_uses \cup {dev}
Call(name) == calls' = calls \cup {name}
Load(name, content) == loaded' = loaded \cup {<<name, content.origin>>}
Write(name, content) == results_files' = [results_files EXCEPT ![name] = content]

\* lines 135-143
SweepResolveDevice ==
    /\ script = "sweep" /\ pc = "device"
    /\ device' = SweepDevice(args.device, cuda_available)
    /\ pc' = "dirs"
    /\ UNCHANGED <<cert, results_before, script, args, cuda_available,
                   results_exists, results_files, pretrained_files, train,
                   test, split_source, lm, decoder, iter, wandb_log, calls,
                   loaded, imported, device_uses>>

\* lines 145-150
SweepPrepareDirs ==
    /\ script = "sweep" /\ pc = "dirs"
    /\ IF SweepShouldClear(args.clear_results_dir, results_exists)
       THEN results_files' = rmtree(results_files)
       ELSE UNCHANGED results_files
    /\ results_exists' = TRUE
    /\ pc' = "import"
    /\ UNCHANGED <<cert, results_before, script, args, cuda_available, device,
                   pretrained_files, train, test, split_source, lm, decoder,
                   iter, wandb_log, calls, loaded, imported, device_uses>>

\* lines 152-155; copying a file onto itself raises shutil.SameFileError
SweepImportPretrained ==
    /\ script = "sweep" /\ pc = "import"
    /\ IF args.pretrained = None
       THEN /\ pc' = "bert"
            /\ UNCHANGED <<results_files, imported>>
       ELSE IF args.pretrained = "results" /\ Children(PretrainedDir) # {}
       THEN /\ pc' = "crashed"
            /\ UNCHANGED <<results_files, imported>>
       ELSE /\ pc' = "bert"
            /\ results_files' =
                   [n \in DOMAIN results_files |->
                       IF Exists(PretrainedDir, n)
                       THEN shutil_copy(PretrainedDir[n], results_files[n])
                       ELSE results_files[n]]
            /\ imported' = imported \cup Children(PretrainedDir)
    /\ UNCHANGED <<cert, results_before, script, args, cuda_available, device,
                   results_exists, pretrained_files, train, test,
                   split_source, lm, decoder, iter, wandb_log, calls, loaded,
                   device_uses>>

\* lines 157-166
SweepBertScorer ==
    /\ script = "sweep" /\ pc = "bert"
    /\ IF SCORE_BERT_SCORE \in Range(args.scores)
       THEN Use(device)
       ELSE UNCHANGED device_uses
    /\ pc' = "splits"
    /\ UNCHANGED <<cert, results_before, script, args, cuda_available, device,
                   results_exists, results_files, pretrained_files, train,
                   test, split_source, lm, decoder, iter, wandb_log, calls,
                   loaded, imported>>

\* lines 168-172: test, train = training.fixed_split(dataset, splits['train'])
SweepLoadSplits ==
    /\ script = "sweep" /\ pc = "splits"
    /\ Exists(results_files, SPLITS)
    /\ LET splits == results_files[SPLITS]
           parts == fixed_split(Dataset, splits.train)
       IN  /\ test' = parts[1]
           /\ train' = parts[2]
           /\ Load(SPLITS, splits)
    /\ split_source' = "loaded"
    /\ pc' = "lm"
    /\ UNCHANGED <<cert, results_before, script, args, cuda_available, device,
                   results_exists, results_files, pretrained_files, lm,
                   decoder, iter, wandb_log, calls, imported, device_uses>>

\* lines 173-176
SweepRandomSplit ==
    /\ script = "sweep" /\ pc = "splits"
    /\ ~Exists(results_files, SPLITS)
    /\ \E parts \in random_split(Dataset, args.hold_out) :
          /\ train' = parts[1]
          /\ test' = parts[2]
          /\ Write(SPLITS, File("new", parts[1], parts[2]))
    /\ Call("random_split")
    /\ split_source' = "random"
    /\ pc' = "lm"
    /\ UNCHANGED <<cert, results_before, script, args, cuda_available, device,
                   results_exists, pretrained_files, lm, decoder, iter,
                   wandb_log, loaded, imported, device_uses>>

\* lines 178-182
SweepLoadLM ==
    /\ script = "sweep" /\ pc = "lm"
    /\ Exists(results_files, LM)
    /\ lm' = results_files[LM]
    /\ Load(LM, results_files[LM])
    /\ Use(device)
    /\ pc' = "captioner"
    /\ UNCHANGED <<cert, results_before, script, args, cuda_available, device,
                   results_exists, results_files, pretrained_files, train,
                   test, split_source, decoder, iter, wandb_log, calls,
                   imported>>

\* lines 183-187 (and the fall-through that leaves lm = None)
SweepTrainLM ==
    /\ script = "sweep" /\ pc = "lm"
    /\ ~Exists(results_files, LM)
    /\ IF {SWEEP_GREEDY_MI, SWEEP_BEAM_MI} \cap Range(args.sweeps) # {}
       THEN /\ lm' = File("new", {}, {})
            /\ Write(LM, File("new", {}, {}))
            /\ Call("lm.fit")
            /\ Use(device)
       ELSE UNCHANGED <<lm, results_files, calls, device_uses>>
    /\ pc' = "captioner"
    /\ UNCHANGED <<cert, results_before, script, args, cuda_available, device,
                   results_exists, pretrained_files, train, test,
                   split_source, decoder, iter, wandb_log, loaded, imported>>

\* if captioner_file.is_file() and splits_file.is_file():
CaptionerCached(files) == Exists(files, CAPTIONER) /\ Exists(files, SPLITS)

\* lines 189-193
SweepLoadCaptioner ==
    /\ script = "sweep" /\ pc = "captioner"
    /\ CaptionerCached(results_files)
    /\ decoder' = results_files[CAPTIONER]
    /\ Load(CAPTIONER, results_files[CAPTIONER])
    /\ Use(device)
    /\ pc' = "features"
    /\ UNCHANGED <<cert, results_before, script, args, cuda_available, device,
                   results_exists, results_files, pretrained_files, train,
                   test, split_source, lm, iter, wandb_log, calls, imported>>

\* lines 194-210
SweepTrainCaptioner ==
    /\ script = "sweep" /\ pc = "captioner"
    /\ ~CaptionerCached(results_files)
    /\ decoder' = File("new", train, {})
    /\ Write(CAPTIONER, File("new", train, {}))
    /\ calls' = calls \cup {"decoder.fit"} \cup
          (IF args.precompute_features THEN {"encoder.map"} ELSE {})
    /\ Use(device)
    /\ pc' = "features"
    /\ UNCHANGED <<cert, results_before, script, args, cuda_available, device,
                   results_exists, pretrained_files, train, test,
                   split_source, lm, iter, wandb_log, loaded, imported>>

\* lines 212-216
SweepTestFeatures ==
    /\ script = "sweep" /\ pc = "features"
    /\ IF args.precompute_features
       THEN Use(device) /\ Call("encoder.map")
       ELSE UNCHANGED <<device_uses, calls>>
    /\ pc' = "sweeps"
    /\ UNCHANGED <<cert, results_before, script, args, cuda_available, device,
                   results_exists, results_files, pretrained_files, train,
                   test, split_source, lm, decoder, iter, wandb_log, loaded,
                   imported>>

----------------------------------------------------------------------------
(* run_captioner_sweep.py: evaluate and the sweep loops.                   *)

BeamSizes(a) == arange(a.beam_size_min, a.beam_size_max, a.beam_size_step)

\* numpy.arange(args.mi_temperature_min, args.mi_temperature_max,
\*              args.mi_temperature_step), each temperature in hundredths
Temperatures(a) ==
    LET r == FloatGrid(<<a.mi_temperature_min, a.mi_temperature_max,
                         a.mi_temperature_step>>)
    IN  [i \in 1..Len(r) |-> r[i].hundredths]

HasNextEarly(i, grid) == i < Len(grid)

\* `for x in grid`: the loop body runs once more while an element is left
HasNext(i, grid) == i <= Len(grid)

\* lines 219-258: one prediction on `device`, one wandb.log
evaluate(kwargs) ==
    /\ wandb_log' = Append(wandb_log, [condition |-> kwargs])
    /\ Call("decoder.predict")
    /\ Use(device)

Sweep == args.sweeps[iter.sweep]

NextSweepIter ==
    [sweep |-> iter.sweep + 1, beam |-> 1, temp |-> 1, temps |-> <<>>]

\* `for temperature in numpy.arange(...)`: the array is made when the loop is
\* entered and iterated from then on
TemperatureLoop == IF iter.temp = 1 THEN Temperatures(args) ELSE iter.temps

SweepFrame ==
    <<cert, results_before, script, args, cuda_available, device,
      results_exists, results_files, pretrained_files, train, test,
      split_source, lm, decoder, loaded, imported>>

LoopFrame ==
    <<cert, results_before, script, pc, args, cuda_available, device, results_exists, results_files,
      pretrained_files, train, test, split_source, lm, decoder, loaded,
      imported>>

\* lines 262-263
SweepGreedy ==
    /\ script = "sweep" /\ pc = "sweeps"
    /\ HasNext(iter.sweep, args.sweeps)
    /\ Sweep = SWEEP_GREEDY
    /\ evaluate([strategy |-> "greedy", mi |-> FALSE])
    /\ iter' = NextSweepIter
    /\ UNCHANGED LoopFrame

\* lines 264-267
SweepBeam ==
    /\ script = "sweep" /\ pc = "sweeps"
    /\ HasNext(iter.sweep, args.sweeps)
    /\ Sweep = SWEEP_BEAM
    /\ IF HasNext(iter.beam, BeamSizes(args))
       THEN /\ evaluate([strategy |-> "beam", mi |-> FALSE,
                         beam_size |-> BeamSizes(args)[iter.beam]])
            /\ iter' = [iter EXCEPT !.beam = @ + 1]
       ELSE /\ iter' = NextSweepIter
            /\ UNCHANGED <<wandb_log, calls, device_uses>>
    /\ UNCHANGED LoopFrame

\* lines 268-272
SweepGreedyMI ==
    /\ script = "sweep" /\ pc = "sweeps"
    /\ HasNext(iter.sweep, args.sweeps)
    /\ Sweep = SWEEP_GREEDY_MI
    /\ \E temps \in {TemperatureLoop} :
          IF HasNext(iter.temp, temps)
          THEN /\ evaluate([strategy |-> "greedy", mi |-> TRUE,
                            temperature |-> temps[iter.temp]])
               /\ iter' = [iter EXCEPT !.temp = @ + 1, !.temps = temps]
          ELSE /\ iter' = NextSweepIter
               /\ UNCHANGED <<wandb_log, calls, device_uses>>
    /\ UNCHANGED LoopFrame

\* lines 273-282
SweepBeamMI ==
    /\ script = "sweep" /\ pc = "sweeps"
    /\ HasNext(iter.sweep, args.sweeps)
    /\ Sweep = SWEEP_BEAM_MI
    /\ IF HasNext(iter.beam, BeamSizes(args))
       THEN \E temps \in {TemperatureLoop} :
               IF HasNext(iter.temp, temps)
               THEN /\ evaluate([strategy |-> "beam",
                                 beam_size |-> BeamSizes(args)[iter.beam],
                                 mi |-> TRUE,
                                 temperature |-> temps[iter.temp]])
                    /\ iter' = [iter EXCEPT !.temp = @ + 1, !.temps = temps]
               ELSE /\ iter' = [iter EXCEPT !.beam = @ + 1, !.temp = 1,
                                            !.temps = <<>>]
                    /\ UNCHANGED <<wandb_log, calls, device_uses>>
       ELSE /\ iter' = NextSweepIter
            /\ UNCHANGED <<wandb_log, calls, device_uses>>
    /\ UNCHANGED LoopFrame

\* lines 283-292: the `else` of the dispatch; a name that is none of the five
\* fails `assert sweep == SWEEP_RERANK` and the run ends there
SweepRerank ==
    /\ script = "sweep" /\ pc = "sweeps"
    /\ HasNext(iter.sweep, args.sweeps)
    /\ Sweep \notin {SWEEP_GREEDY, SWEEP_BEAM, SWEEP_GREEDY_MI, SWEEP_BEAM_MI}
    /\ IF Sweep # SWEEP_RERANK
       THEN /\ pc' = "crashed"
            /\ UNCHANGED <<iter, wandb_log, calls, device_uses>>
       ELSE /\ IF HasNext(iter.beam, BeamSizes(args))
               THEN \E temps \in {TemperatureLoop} :
                       IF HasNext(iter.temp, temps)
                       THEN /\ evaluate([strategy |-> "rerank",
                                         beam_size |-> BeamSizes(args)[iter.beam],
                                         temperature |-> temps[iter.temp]])
                            /\ iter' = [iter EXCEPT !.temp = @ + 1,
                                                    !.temps = temps]
                       ELSE /\ iter' = [iter EXCEPT !.beam = @ + 1, !.temp = 1,
                                                    !.temps = <<>>]
                            /\ UNCHANGED <<wandb_log, calls, device_uses>>
               ELSE /\ iter' = NextSweepIter
                    /\ UNCHANGED <<wandb_log, calls, device_uses>>
            /\ UNCHANGED pc
    /\ UNCHANGED SweepFrame

\* line 261: args.sweeps is exhausted, the script ends
SweepFinish ==
    /\ script = "sweep" /\ pc = "sweeps"
    /\ ~HasNext(iter.sweep, args.sweeps)
    /\ pc' = "done"
    /\ UNCHANGED <<cert, results_before, script, args, cuda_available, device,
                   results_exists, results_files, pretrained_files, train,
                   test, split_source, lm, decoder, iter, wandb_log, calls,
                   loaded, imported, device_uses>>

NextSweep ==
    \/ SweepResolveDevice
    \/ SweepPrepareDirs
    \/ SweepImportPretrained
    \/ SweepBertScorer
    \/ SweepLoadSplits
    \/ SweepRandomSplit
    \/ SweepLoadLM
    \/ SweepTrainLM
    \/ SweepLoadCaptioner
    \/ SweepTrainCaptioner
    \/ SweepTestFeatures
    \/ SweepGreedy
    \/ SweepBeam
    \/ SweepGreedyMI
    \/ SweepBeamMI
    \/ SweepRerank
    \/ SweepFinish

----------------------------------------------------------------------------
(* Initial states: the command line, the machine and the directories.      *)

\* the splits an earlier run may have recorded
Splits(origin) ==
    {File(origin, parts[1], parts[2]) : parts \in random_split(Dataset, HoldOutPct)}

\* the captioners an earlier run may have saved: one per train split
Captioners(origin) ==
    {File(origin, parts[1], {}) : parts \in random_split(Dataset, HoldOutPct)}

\* every state of a directory of the sweep: each file absent or present
SweepDirs(origin) ==
    {[n \in SweepFiles |->
         CASE n = SPLITS -> s
           [] n = LM -> l
           [] n = CAPTIONER -> c] :
       s \in {NoFile} \cup Splits(origin),
       l \in {NoFile, File(origin, {}, {})},
       c \in {NoFile} \cup Captioners(origin)}

\* --sweeps has no `choices`: argparse accepts a word that names no sweep
UnknownSweep == "foo"

\* every non-empty --sweeps list of at most MaxSweeps words
SweepLists ==
    UNION {[1..n -> Range(SWEEPS) \cup {UnknownSweep}] : n \in 1..MaxSweeps}

\* lists that between them run every sweep, and one with a word that names
\* no sweep
CoverSweepLists ==
    {<<SWEEP_GREEDY>>, <<SWEEP_BEAM, SWEEP_GREEDY_MI>>,
     <<SWEEP_BEAM_MI, SWEEP_RERANK>>, <<SWEEP_GREEDY, UnknownSweep>>}

\* <<min, max, step>> of a grid
Grids == (1..MaxGrid) \X (1..MaxGrid) \X (1..MaxStep)
CoverGrids == {<<1, MaxGrid, 1>>}

SweepArgs(dev, clear, pre, feat, sweeps, bg, tg) ==
    [device |-> dev, clear_results_dir |-> clear, pretrained |-> pre,
     precompute_features |-> feat, scores |-> SCORES, hold_out |-> HoldOutPct,
     sweeps |-> sweeps,
     beam_size_min |-> bg[1], beam_size_max |-> bg[2], beam_size_step |-> bg[3],
     mi_temperature_min |-> tg[1], mi_temperature_max |-> tg[2],
     mi_temperature_step |-> tg[3]]

InitMemory ==
    /\ device = "unset"
    /\ train = {} /\ test = {}
    /\ split_source = "none"
    /\ lm = NoFile /\ decoder = NoFile
    /\ wandb_log = <<>>
    /\ calls = {} /\ loaded = {} /\ imported = {} /\ device_uses = {}

\* a run of run_captioner_sweep.py
InitSweep(devices, cudas, clears, dirs, pres, feats, lists, bgrids, tgrids) ==
    /\ script = "sweep" /\ pc = "device"
    /\ cuda_available \in cudas
    /\ \E dev \in devices, clear \in clears, pre \in pres, feat \in feats,
          sweeps \in lists, bg \in bgrids, tg \in tgrids :
          args = SweepArgs(dev, clear, pre, feat, sweeps, bg, tg)
    /\ \/ results_exists = FALSE /\ results_files = NoFiles(SweepFiles)
       \/ results_exists = TRUE /\ results_files \in dirs
    /\ IF args.pretrained = "pretrained"
       THEN pretrained_files \in SweepDirs("pre")
       ELSE pretrained_files = NoFiles(SweepFiles)
    /\ iter = [sweep |-> 1, beam |-> 1, temp |-> 1, temps |-> <<>>]
    /\ cert = NoFile
    /\ results_before = results_files
    /\ InitMemory

----------------------------------------------------------------------------
(* run_cnn_cert.py.                                                        *)

KEY_SPURIOUS_IMAGENET_TEXT == "spurious-imagenet-text"
KEY_SPURIOUS_IMAGENET_COLOR == "spurious-imagenet-color"
EXPERIMENTS == <<KEY_SPURIOUS_IMAGENET_TEXT, KEY_SPURIOUS_IMAGENET_COLOR>>

VERSION_50PCT == "50pct"
VERSION_100PCT == "100pct"
VERSIONS == <<VERSION_50PCT, VERSION_100PCT>>

CONDITION_SORT_SPURIOUS == "sort-spurious"
CONDITION_SORT_ALL == "sort-all"
CONDITION_RANDOM == "random"
CONDITIONS == <<CONDITION_SORT_SPURIOUS, CONDITION_SORT_ALL, CONDITION_RANDOM>>

\* files of the results dir: <<experiment, version, kind>>
\*   splits    <experiment>/splits.pth (one per experiment, version "-")
\*   cnn       <experiment>/<cnn>-<version>.pth
\*   dissect   <experiment>/<cnn>-<version>/
\*   captions  <experiment>/<cnn>-<version>-captions.txt
\*   units     <experiment>/<cnn>-<version>-units.txt
\*   scores    <experiment>/<cnn>-<version>-scores.pth
VersionKinds == {"cnn", "dissect", "captions", "units", "scores"}
CertFiles ==
    {<<e, "-", "splits">> : e \in Range(EXPERIMENTS)}
        \cup (Range(EXPERIMENTS) \X Range(VERSIONS) \X VersionKinds)

Experiment == args.experiments[iter.exp]
Version == args.versions[iter.ver]
Condition == args.conditions[iter.cond]

splits_file == <<Experiment, "-", "splits">>
cnn_file == <<Experiment, Version, "cnn">>
dissection_dir == <<Experiment, Version, "dissect">>
captions_file == <<Experiment, Version, "captions">>
candidates_file == <<Experiment, Version, "units">>
scores_file == <<Experiment, Version, "scores">>

\* the units whose caption holds one of the experiment's target words
\* (decoder.predict is a function of the dissected cnn; lines 269-272)
CaptionHits(experiment) ==
    IF experiment = KEY_SPURIOUS_IMAGENET_TEXT THEN {1} ELSE 1..NumUnits

\* device = args.device or 'cuda' if cuda.is_available() else 'cpu'
CertDevice(arg, cuda) ==
    IF cuda THEN (IF Truthy(arg) THEN arg ELSE "cuda") ELSE "cpu"

\* if args.clear_results_dir and results_dir.exists():
CertShouldClear(clear, exists) == clear /\ exists

\* numpy.arange(args.ablation_min, args.ablation_max, args.ablation_step_size)
Fractions(a) ==
    FloatGrid(<<a.ablation_min, a.ablation_max, a.ablation_step_size>>)

\* a captions file of n lines; `hits` are the units whose caption holds one of
\* the target words
CaptionsFile(origin, hits, n) == [File(origin, hits, {}) EXCEPT !.lines = n]

\* len(dissected): every unit of the dissected layers
Dissected == 1..NumUnits

\* a scores file of n scores: scores[i] is the score of unit i
ScoresFile(origin, n) == [File(origin, {}, {}) EXCEPT !.lines = n]

\* lines 141-151
CertResolveDevice ==
    /\ script = "cert" /\ pc = "device"
    /\ device' = CertDevice(args.device, cuda_available)
    /\ pc' = "dirs"
    /\ UNCHANGED <<cert, results_before, script, args, cuda_available,
                   results_exists, results_files, pretrained_files, train,
                   test, split_source, lm, decoder, iter, wandb_log, calls,
                   loaded, imported, device_uses>>

\* lines 153-162
CertPrepareDirs ==
    /\ script = "cert" /\ pc = "dirs"
    /\ IF CertShouldClear(args.clear_results_dir, results_exists)
       THEN results_files' = rmtree(results_files)
       ELSE UNCHANGED results_files
    /\ results_exists' = TRUE
    /\ pc' = "zoo"
    /\ UNCHANGED <<cert, results_before, script, args, cuda_available, device,
                   pretrained_files, train, test, split_source, lm, decoder,
                   iter, wandb_log, calls, loaded, imported, device_uses>>

\* lines 164-172: the captioner comes from the zoo (or --captioner-file)
CertLoadCaptioner ==
    /\ script = "cert" /\ pc = "zoo"
    /\ decoder' = File("zoo", {}, {})
    /\ Use(device)
    /\ pc' = "experiments"
    /\ UNCHANGED <<cert, results_before, script, args, cuda_available, device,
                   results_exists, results_files, pretrained_files, train,
                   test, split_source, lm, iter, wandb_log, calls, loaded,
                   imported>>

CertFrame ==
    <<results_before, script, args, cuda_available, device, results_exists,
      pretrained_files, lm, decoder, imported>>

\* lines 175-185, and the end of the script when the list is exhausted
CertExperiment ==
    /\ script = "cert" /\ pc = "experiments"
    /\ IF HasNext(iter.exp, args.experiments)
       THEN /\ pc' = "versions"
            /\ iter' = [iter EXCEPT !.ver = 1]
       ELSE /\ pc' = "done"
            /\ UNCHANGED iter
    /\ UNCHANGED CertFrame
    /\ UNCHANGED <<cert, results_files, train, test, split_source, wandb_log,
                   calls, loaded, device_uses>>

\* lines 187-196
CertVersion ==
    /\ script = "cert" /\ pc = "versions"
    /\ IF HasNext(iter.ver, args.versions)
       THEN /\ pc' = "splits"
            /\ UNCHANGED iter
       ELSE /\ pc' = "experiments"
            /\ iter' = [iter EXCEPT !.exp = @ + 1]
    /\ UNCHANGED CertFrame
    /\ UNCHANGED <<cert, results_files, train, test, split_source, wandb_log,
                   calls, loaded, device_uses>>

\* lines 198-203: train, val = training.fixed_split(dataset, splits['val'])
CertLoadSplits ==
    /\ script = "cert" /\ pc = "splits"
    /\ Exists(results_files, splits_file)
    /\ LET splits == results_files[splits_file]
           parts == fixed_split(Dataset, splits.test)
       IN  /\ train' = parts[1]
           /\ test' = parts[2]
           /\ Load(splits_file, splits)
    /\ split_source' = "loaded"
    /\ pc' = "cnn"
    /\ UNCHANGED CertFrame
    /\ UNCHANGED <<cert, results_files, iter, wandb_log, calls, device_uses>>

\* lines 204-210
CertRandomSplit ==
    /\ script = "cert" /\ pc = "splits"
    /\ ~Exists(results_files, splits_file)
    /\ \E parts \in random_split(Dataset, args.hold_out) :
          /\ train' = parts[1]
          /\ test' = parts[2]
          /\ Write(splits_file, File("new", parts[1], parts[2]))
    /\ Call("random_split")
    /\ split_source' = "random"
    /\ pc' = "cnn"
    /\ UNCHANGED CertFrame
    /\ UNCHANGED <<cert, iter, wandb_log, loaded, device_uses>>

\* lines 212-221, 234
CertLoadCnn ==
    /\ script = "cert" /\ pc = "cnn"
    /\ Exists(results_files, cnn_file)
    /\ cert' = [cert EXCEPT !.cnn = results_files[cnn_file]]
    /\ Load(cnn_file, results_files[cnn_file])
    /\ Use(device)
    /\ pc' = "dissect"
    /\ UNCHANGED CertFrame
    /\ UNCHANGED <<results_files, train, test, split_source, iter, wandb_log,
                   calls>>

\* lines 212-217, 222-234
CertFitCnn ==
    /\ script = "cert" /\ pc = "cnn"
    /\ ~Exists(results_files, cnn_file)
    /\ cert' = [cert EXCEPT !.cnn = File("new", Dataset \ test, test)]
    /\ Write(cnn_file, File("new", Dataset \ test, test))
    /\ Call("cnn.fit")
    /\ Use(device)
    /\ pc' = "dissect"
    /\ UNCHANGED CertFrame
    /\ UNCHANGED <<train, test, split_source, iter, wandb_log, loaded>>

\* lines 236-250: dissect.discriminative writes its results to dissection_dir
CertDissect ==
    /\ script = "cert" /\ pc = "dissect"
    /\ IF Exists(results_files, dissection_dir)
       THEN UNCHANGED results_files
       ELSE Write(dissection_dir, File("new", {}, {}))
    /\ Call("dissect.discriminative")
    /\ Use(device)
    /\ pc' = "captions"
    /\ UNCHANGED CertFrame
    /\ UNCHANGED <<cert, train, test, split_source, iter, wandb_log, loaded>>

\* lines 252-257: assert len(captions) == len(dissected) ends the run
CertLoadCaptions ==
    /\ script = "cert" /\ pc = "captions"
    /\ Exists(results_files, captions_file)
    /\ cert' = [cert EXCEPT !.captions = results_files[captions_file]]
    /\ Load(captions_file, results_files[captions_file])
    /\ pc' = IF results_files[captions_file].lines = Cardinality(Dissected)
             THEN "candidates" ELSE "crashed"
    /\ UNCHANGED CertFrame
    /\ UNCHANGED <<results_files, train, test, split_source, iter, wandb_log,
                   calls, device_uses>>

\* lines 258-266
CertPredictCaptions ==
    /\ script = "cert" /\ pc = "captions"
    /\ ~Exists(results_files, captions_file)
    /\ LET captions == CaptionsFile("new", CaptionHits(Experiment),
                                    Cardinality(Dissected))
       IN  /\ cert' = [cert EXCEPT !.captions = captions]
           /\ Write(captions_file, captions)
    /\ Call("decoder.predict")
    /\ Use(device)
    /\ pc' = "candidates"
    /\ UNCHANGED CertFrame
    /\ UNCHANGED <<train, test, split_source, iter, wandb_log, loaded>>

\* lines 268-276: the candidate units are written on every run
CertCandidates ==
    /\ script = "cert" /\ pc = "candidates"
    /\ Write(candidates_file, File("new", cert.captions.train, {}))
    /\ pc' = "scores"
    /\ UNCHANGED CertFrame
    /\ UNCHANGED <<cert, train, test, split_source, iter, wandb_log, calls,
                   loaded, device_uses>>

\* sort_spurious or sort_all (lines 282-284)
NeedsScores(conditions) ==
    CONDITION_SORT_SPURIOUS \in Range(conditions)
        \/ CONDITION_SORT_ALL \in Range(conditions)

\* lines 281-299
CertScores ==
    /\ script = "cert" /\ pc = "scores"
    /\ IF ~NeedsScores(args.conditions)
       THEN /\ cert' = [cert EXCEPT !.scores = NoFile]
            /\ UNCHANGED <<results_files, loaded, calls, device_uses>>
       ELSE IF Exists(results_files, scores_file)
       THEN /\ cert' = [cert EXCEPT !.scores = results_files[scores_file]]
            /\ Load(scores_file, results_files[scores_file])
            /\ UNCHANGED <<results_files, calls, device_uses>>
       ELSE /\ cert' = [cert EXCEPT !.scores =
                                ScoresFile("new", Cardinality(Dissected))]
            /\ Write(scores_file, ScoresFile("new", Cardinality(Dissected)))
            /\ Call("cnn.accuracy")
            /\ Use(device)
            /\ UNCHANGED loaded
    /\ pc' = "conditions"
    /\ iter' = [iter EXCEPT !.cond = 1]
    /\ UNCHANGED CertFrame
    /\ UNCHANGED <<train, test, split_source, wandb_log>>

\* lines 303-306
Trials(condition, a) ==
    IF condition = CONDITION_RANDOM THEN a.n_random_trials ELSE 1

\* line 302
CertCondition ==
    /\ script = "cert" /\ pc = "conditions"
    /\ IF HasNext(iter.cond, args.conditions)
       THEN /\ pc' = "trials"
            /\ iter' = [iter EXCEPT !.trial = 1]
       ELSE /\ pc' = "versions"
            /\ iter' = [iter EXCEPT !.ver = @ + 1]
    /\ UNCHANGED CertFrame
    /\ UNCHANGED <<cert, results_files, train, test, split_source, wandb_log,
                   calls, loaded, device_uses>>

\* lines 309-322: the units whose score `key=scores.__getitem__` reads
Scored(condition, candidates) ==
    CASE condition = CONDITION_SORT_SPURIOUS -> candidates
      [] condition = CONDITION_SORT_ALL -> Dissected
      [] OTHER -> {}

\* scores[index] raises IndexError past the end of the list
HasScores(scores, units) == \A u \in units : u <= scores.lines

\* lines 308-325: `indices` is built from the scores, and in each condition
\* len(indices) = len(candidate_indices); fractions = numpy.arange(...) is
\* made anew in every trial
CertTrial ==
    /\ script = "cert" /\ pc = "trials"
    /\ IF iter.trial <= Trials(Condition, args)
       THEN IF HasScores(cert.scores, Scored(Condition, cert.captions.train))
            THEN /\ pc' = "fractions"
                 /\ iter' = [iter EXCEPT !.frac = 1,
                                         !.fractions = Fractions(args)]
            ELSE /\ pc' = "crashed"
                 /\ UNCHANGED iter
       ELSE /\ pc' = "conditions"
            /\ iter' = [iter EXCEPT !.cond = @ + 1]
    /\ UNCHANGED CertFrame
    /\ UNCHANGED <<cert, results_files, train, test, split_source, wandb_log,
                   calls, loaded, device_uses>>

\* line 327: len(indices[:int(fraction * len(indices))]), the product a
\* binary64; in each condition len(indices) = len(candidate_indices)
AblatedCount(fraction, candidates) ==
    Min(fraction.times[Cardinality(candidates)], Cardinality(candidates))

\* lines 326-375
CertAblate ==
    /\ script = "cert" /\ pc = "fractions"
    /\ IF HasNext(iter.frac, iter.fractions)
       THEN /\ wandb_log' = Append(wandb_log,
                  [experiment |-> Experiment, version |-> Version,
                   condition |-> Condition, trial |-> iter.trial,
                   frac_ablated |-> iter.fractions[iter.frac].hundredths,
                   n_ablated |-> AblatedCount(iter.fractions[iter.frac],
                                              cert.captions.train)])
            /\ calls' = calls \cup
                  (IF args.fine_tune THEN {"copied.fit"} ELSE {})
                  \cup {"copied.accuracy"}
            /\ Use(device)
            /\ iter' = [iter EXCEPT !.frac = @ + 1]
            /\ UNCHANGED pc
       ELSE /\ pc' = "trials"
            /\ iter' = [iter EXCEPT !.trial = @ + 1]
            /\ UNCHANGED <<wandb_log, calls, device_uses>>
    /\ UNCHANGED CertFrame
    /\ UNCHANGED <<cert, results_files, train, test, split_source, loaded>>

NextCert ==
    \/ CertResolveDevice
    \/ CertPrepareDirs
    \/ CertLoadCaptioner
    \/ CertExperiment
    \/ CertVersion
    \/ CertLoadSplits
    \/ CertRandomSplit
    \/ CertLoadCnn
    \/ CertFitCnn
    \/ CertDissect
    \/ CertLoadCaptions
    \/ CertPredictCaptions
    \/ CertCandidates
    \/ CertScores
    \/ CertCondition
    \/ CertTrial
    \/ CertAblate

\* the kinds of file an earlier run caches and a later run looks up
CachedKinds == {"splits", "cnn", "captions", "scores"}

\* what an earlier run left under `name`; its captions files have n lines,
\* its scores files k scores
OldCertFile(name, n, k) ==
    LET held == 1..SplitSize(HoldOutPct)
    IN  CASE name[3] \in {"splits", "cnn"} -> File("old", Dataset \ held, held)
          [] name[3] = "captions" -> CaptionsFile("old", CaptionHits(name[1]), n)
          [] name[3] = "scores" -> ScoresFile("old", k)
          [] OTHER -> File("old", {}, {})

\* the number of lines of an earlier captions file: one line per unit when
\* it was written for the same units, another number when it was not
LineCounts == {NumUnits, NumUnits + 1}

\* the number of scores of an earlier scores file: one per unit, or one less
\* when it was written for fewer units
ScoreCounts == {NumUnits - 1, NumUnits}

\* results dirs an earlier run left: every file of the kinds in `kinds`
CertDirs(kindsets, linecounts, scorecounts) ==
    {[n \in CertFiles |->
         IF n[3] \in kinds THEN OldCertFile(n, lines, scores) ELSE NoFile] :
        kinds \in kindsets, lines \in linecounts, scores \in scorecounts}

CertArgs(dev, clear, exps, vers, conds, fg) ==
    [device |-> dev, clear_results_dir |-> clear, experiments |-> exps,
     versions |-> vers, conditions |-> conds, n_random_trials |-> MaxTrials,
     fine_tune |-> TRUE, hold_out |-> HoldOutPct,
     ablation_min |-> fg[1], ablation_max |-> fg[2],
     ablation_step_size |-> fg[3]]

ExperimentLists == {<<KEY_SPURIOUS_IMAGENET_TEXT>>, EXPERIMENTS}
VersionLists == {<<VERSION_50PCT>>, VERSIONS, <<VERSION_50PCT, VERSION_50PCT>>}
ConditionLists == {CONDITIONS, <<CONDITION_RANDOM>>}

\* a run of run_cnn_cert.py
InitCert(devices, cudas, dirs, explists, verlists, condlists, fgrids) ==
    /\ script = "cert" /\ pc = "device"
    /\ cuda_available \in cudas
    /\ \E dev \in devices, clear \in BOOLEAN, exps \in explists,
          vers \in verlists, conds \in condlists, fg \in fgrids :
          args = CertArgs(dev, clear, exps, vers, conds, fg)
    /\ \/ results_exists = FALSE /\ results_files = NoFiles(CertFiles)
       \/ results_exists = TRUE /\ results_files \in dirs
    /\ pretrained_files = NoFiles(SweepFiles)
    /\ iter = [exp |-> 1, ver |-> 1, cond |-> 1, trial |-> 1, frac |-> 1,
               fractions |-> <<>>]
    /\ cert = [cnn |-> NoFile, captions |-> NoFile, scores |-> NoFile]
    /\ results_before = results_files
    /\ InitMemory

Devices == {None, "mps"}

\* a results dir an earlier run filled, and an empty one
CoverSweepDirs ==
    {d \in SweepDirs("old") : Children(d) \in {{}, SweepFiles}}
CoverCertDirs == CertDirs({{}, CachedKinds}, {NumUnits}, {NumUnits})

\* every cache state and --pretrained of the sweep, every cache state of the
\* cnn run; the device is guessed, the grids are fixed
Init ==
    \/ InitSweep({None}, {TRUE}, BOOLEAN, SweepDirs("old"),
                 {None, "pretrained", "results"}, {FALSE},
                 CoverSweepLists, CoverGrids, CoverGrids)
    \/ InitCert({None}, {TRUE}, CertDirs(SUBSET CachedKinds, LineCounts, ScoreCounts),
                ExperimentLists, VersionLists, ConditionLists, FractionGrids)

\* every --device on every machine, for both scripts
InitDevice ==
    \/ InitSweep(Devices, BOOLEAN, BOOLEAN, CoverSweepDirs, {None, "pretrained"},
                 BOOLEAN, CoverSweepLists, CoverGrids, CoverGrids)
    \/ InitCert(Devices, BOOLEAN, CoverCertDirs,
                {EXPERIMENTS}, {VERSIONS}, ConditionLists, {HalfGrid})

\* every --sweeps list and every beam grid of the sweep
InitGrid ==
    InitSweep({None}, {TRUE}, {FALSE}, CoverSweepDirs, {None}, {FALSE},
              SweepLists, Grids, TemperatureGrids)

Next == NextSweep \/ NextCert

Spec == Init /\ [][Next]_vars

SpecDevice == InitDevice /\ [][Next]_vars

SpecGrid == InitGrid /\ [][NextSweep]_vars

----------------------------------------------------------------------------
(* Properties.                                                             *)

Configured == pc \notin {"device"}

\* the guess of the help text: 'cuda' if CUDA is available, else 'cpu'
Guessed == IF cuda_available THEN "cuda" ELSE "cpu"

\* C1: in both scripts the device of every load, fit and evaluation is the
\* value of --device when it is given, and is guessed only when it is absent.
C1_DeviceIsTheArgument ==
    Configured =>
        /\ device = (IF args.device # None THEN args.device ELSE Guessed)
        /\ device_uses \subseteq {device}

CaptionerReady == script = "sweep" /\ pc \in {"features", "sweeps", "done"}

\* the directory --pretrained names, as it was when the run began
PretrainedAtLaunch ==
    IF args.pretrained = "results" THEN results_before ELSE pretrained_files

\* --pretrained names a directory holding captioner.pth and splits.pth
PretrainedNamed ==
    /\ script = "sweep"
    /\ args.pretrained # None
    /\ Exists(PretrainedAtLaunch, CAPTIONER)
    /\ Exists(PretrainedAtLaunch, SPLITS)

\* C2 as stated: when --pretrained names a directory holding captioner.pth
\* and splits.pth (any directory, the results dir included), random_split and
\* decoder.fit are never called, the decoder is the one of that captioner.pth
\* and the train/test partition is the one recorded in that splits.pth.
C2_AnyPretrainedIsUsed ==
    PretrainedNamed =>
        /\ "random_split" \notin calls
        /\ "decoder.fit" \notin calls
        /\ CaptionerReady =>
              /\ decoder = PretrainedAtLaunch[CAPTIONER]
              /\ train = PretrainedAtLaunch[SPLITS].train
              /\ test = PretrainedAtLaunch[SPLITS].test

\* --pretrained names a directory, other than the results dir, holding
\* captioner.pth and splits.pth
PretrainedGiven ==
    /\ script = "sweep"
    /\ args.pretrained = "pretrained"
    /\ Exists(pretrained_files, CAPTIONER)
    /\ Exists(pretrained_files, SPLITS)

\* C2, amended: when --pretrained names a directory other than the results
\* dir that holds captioner.pth and splits.pth, random_split and decoder.fit
\* are never called, the decoder is the one of the copied captioner.pth and
\* the train/test partition is the one recorded in the copied splits.pth,
\* whatever the results dir held before.
C2_PretrainedIsUsed ==
    PretrainedGiven =>
        /\ "random_split" \notin calls
        /\ "decoder.fit" \notin calls
        /\ CaptionerReady =>
              /\ decoder = pretrained_files[CAPTIONER]
              /\ train = pretrained_files[SPLITS].train
              /\ test = pretrained_files[SPLITS].test
              /\ {CAPTIONER, SPLITS} \subseteq imported

\* a run that imported a captioner over the other captioner and splits that
\* the results dir held, and evaluated it
C2_Witness ==
    /\ PretrainedGiven
    /\ pc = "done"
    /\ ~args.clear_results_dir
    /\ Exists(results_before, CAPTIONER)
    /\ Exists(results_before, SPLITS)
    /\ results_before[CAPTIONER].train # pretrained_files[CAPTIONER].train
    /\ results_before[SPLITS].train # pretrained_files[SPLITS].train
    /\ Len(wandb_log) > 0

NoPretrained == script = "sweep" => args.pretrained = None

NothingOldLoaded == \A l \in loaded : l[2] # "old"

Regenerated(name) == results_files[name].origin = "new"

\* the cached artifacts of the run: those of every experiment and version
RunFiles(kinds) ==
    IF script = "sweep"
    THEN {n \in SweepFiles : n \in kinds}
    ELSE {n \in CertFiles :
            /\ n[1] \in Range(args.experiments)
            /\ n[2] \in Range(args.versions) \cup {"-"}
            /\ n[3] \in kinds}

\* the artifacts the run has a use for
Needed ==
    IF script = "sweep"
    THEN {SPLITS, CAPTIONER} \cup
         (IF {SWEEP_GREEDY_MI, SWEEP_BEAM_MI} \cap Range(args.sweeps) # {}
          THEN {LM} ELSE {})
    ELSE {"splits", "cnn", "captions"} \cup
         (IF NeedsScores(args.conditions) THEN {"scores"} ELSE {})

NothingDeleted == Children(results_before) \subseteq Children(results_files)

\* --clear-results-dir is set and the results dir exists, with files in it
ClearsResults == args.clear_results_dir /\ Children(results_before) # {}

\* C3 as stated: with --clear-results-dir (and no --pretrained) no artifact of
\* an earlier run is loaded and each of splits, language model, captioner, cnn
\* weights, captions and unit scores is regenerated; without the flag no file
\* of the results dir is deleted.
C3_ClearRegeneratesEach ==
    /\ (ClearsResults /\ NoPretrained) =>
          /\ NothingOldLoaded
          /\ pc = "done" =>
                \A n \in RunFiles(SweepFiles \cup CachedKinds) : Regenerated(n)
    /\ ~args.clear_results_dir => NothingDeleted

\* C3, amended: with --clear-results-dir (and no --pretrained) no artifact of
\* an earlier run is loaded and each artifact the run needs is regenerated
\* (the language model only for a greedy-mi or beam-mi sweep, the unit scores
\* only for a sort-spurious or sort-all condition); without the flag no file
\* of the results dir is deleted.
C3_ClearRegeneratesNeeded ==
    /\ (ClearsResults /\ NoPretrained) =>
          /\ NothingOldLoaded
          /\ pc = "done" => \A n \in RunFiles(Needed) : Regenerated(n)
    /\ ~args.clear_results_dir => NothingDeleted

\* a finished cnn run that cleared a results dir holding every cached kind
C3_Witness ==
    /\ script = "cert"
    /\ pc = "done"
    /\ args.clear_results_dir
    /\ \A n \in RunFiles(CachedKinds) : Exists(results_before, n)
    /\ {"random_split", "cnn.fit", "decoder.predict", "cnn.accuracy"} \subseteq calls

\* C5: a cached captioner.pth is loaded only when the split of the run was
\* loaded from a cached splits.pth; after a fresh random split the captioner
\* is trained on the fresh train split, so it saw no example of the test split.
C5_CachedCaptionerNeedsCachedSplit ==
    (CaptionerReady /\ split_source = "random") =>
        /\ decoder = File("new", train, {})
        /\ "decoder.fit" \in calls
        /\ decoder.train \cap test = {}

\* the kwargs of the evaluations of one sweep, in the order of its loops
Point(sweep, b, t) ==
    CASE sweep = SWEEP_GREEDY -> [strategy |-> "greedy", mi |-> FALSE]
      [] sweep = SWEEP_BEAM -> [strategy |-> "beam", mi |-> FALSE, beam_size |-> b]
      [] sweep = SWEEP_GREEDY_MI ->
            [strategy |-> "greedy", mi |-> TRUE, temperature |-> t]
      [] sweep = SWEEP_BEAM_MI ->
            [strategy |-> "beam", beam_size |-> b, mi |-> TRUE, temperature |-> t]
      [] sweep = SWEEP_RERANK ->
            [strategy |-> "rerank", beam_size |-> b, temperature |-> t]

\* the grid of a sweep: beam size outer, temperature inner; a word that
\* names no sweep has no grid
GridOf(sweep, a) ==
    LET B == IF sweep \in {SWEEP_BEAM, SWEEP_BEAM_MI, SWEEP_RERANK}
             THEN BeamSizes(a) ELSE <<0>>
        T == IF sweep \in {SWEEP_GREEDY_MI, SWEEP_BEAM_MI, SWEEP_RERANK}
             THEN Temperatures(a) ELSE <<0>>
    IN  IF sweep \notin Range(SWEEPS) THEN <<>>
        ELSE [k \in 1..(Len(B) * Len(T)) |->
                [condition |-> Point(sweep, B[((k - 1) \div Len(T)) + 1],
                                            T[((k - 1) % Len(T)) + 1])]]

\* the number of points of the grid of a sweep
Count(sweep, a) ==
    CASE sweep = SWEEP_GREEDY -> 1
      [] sweep = SWEEP_BEAM -> Len(BeamSizes(a))
      [] sweep = SWEEP_GREEDY_MI -> Len(Temperatures(a))
      [] sweep \in {SWEEP_BEAM_MI, SWEEP_RERANK} ->
            Len(BeamSizes(a)) * Len(Temperatures(a))
      [] OTHER -> 0

RECURSIVE ExpectedLog(_, _)
ExpectedLog(sweeps, a) ==
    IF sweeps = <<>> THEN <<>>
    ELSE GridOf(Head(sweeps), a) \o ExpectedLog(Tail(sweeps), a)

RECURSIVE ExpectedCount(_, _)
ExpectedCount(sweeps, a) ==
    IF sweeps = <<>> THEN 0
    ELSE Count(Head(sweeps), a) + ExpectedCount(Tail(sweeps), a)

\* C4: --beam-size-max is the largest beam size tried: when max >= min and
\* max - min is a multiple of the step, the beam sweep evaluates beam_size = max.
C4_MaxBeamSizeIsTried ==
    (/\ pc = "done"
     /\ SWEEP_BEAM \in Range(args.sweeps)
     /\ args.beam_size_max >= args.beam_size_min
     /\ (args.beam_size_max - args.beam_size_min) % args.beam_size_step = 0)
        => \E i \in 1..Len(wandb_log) :
              /\ wandb_log[i].condition.strategy = "beam"
              /\ ~wandb_log[i].condition.mi
              /\ wandb_log[i].condition.beam_size = args.beam_size_max

\* C6: every sweep of --sweeps logs one record per point of its grid, in the
\* order of the list, beam size outer and temperature inner; the number of
\* wandb.log calls is the sum of the grid sizes over the list.
C6_OneRecordPerPoint ==
    /\ Len(wandb_log) <= ExpectedCount(args.sweeps, args)
    /\ pc = "done" =>
          /\ wandb_log = ExpectedLog(args.sweeps, args)
          /\ Len(wandb_log) = ExpectedCount(args.sweeps, args)

\* beam-mi listed twice on two beam sizes and the temperatures 0.03 and 0.04
\* (the stop value, which the rounding of binary64 lets in): eight records
C6_Witness ==
    /\ pc = "done"
    /\ args.sweeps = <<SWEEP_BEAM_MI, SWEEP_BEAM_MI>>
    /\ Len(BeamSizes(args)) = 2
    /\ Temperatures(args) = <<3, 4>>
    /\ args.mi_temperature_max = 4
    /\ Len(wandb_log) = 8
    /\ wandb_log[2].condition.temperature # wandb_log[1].condition.temperature
    /\ wandb_log[2].condition.beam_size = wandb_log[1].condition.beam_size

====
